---- MODULE Spec2Model ----
(***************************************************************************)
(* Vigilance-AI: the alert dispatcher (src/core/alert_system.py), the      *)
(* eye-signal tracker (src/detection/eye_tracker.py), the yawn detector    *)
(* (src/detection/yawn_detector.py), the per-frame orchestrator            *)
(* (src/core/drowsiness_detector.py), the threaded frame source            *)
(* (src/core/video_stream.py) and the processing loop of main()            *)
(* (main.py) as state machines.                                            *)
(*                                                                         *)
(* Time is counted in whole seconds (time.time() readings); EAR and MAR    *)
(* values are counted in hundredths (0.25 is 25); scores are fractions.    *)
(***************************************************************************)
EXTENDS Integers, Sequences, FiniteSets, TLC

(***************************************************************************)
(* Bounds of the model.                                                    *)
(***************************************************************************)
MaxCooldown == 2
MaxTicks == 3
MaxThreads == 2
MaxAlerts == 2
MaxFrames == 6
MaxHistory == 2
MaxDrowsyFrames == 3
MaxMinYawnFrames == 2
MaxYawnsAlert == 2
MaxMarHistory == 1
MaxActiveFrames == 6
MaxTrackerFrames == 2
MaxCoord == 2
MaxDetectorCalls == 2
MaxDetectorCooldown == 1
MaxDetectorTicks == 1
MaxDetectorDrowsyFrames == 2
MaxDetectorYawnsAlert == 1
MaxCameraReads == 3
MaxReads == 3
MaxStops == 2

VARIABLES
  \* AlertSystem: configuration (alert_system.py 58-61)
  sound_enabled, visual_enabled, cooldown_seconds,
  \* AlertSystem: state (alert_system.py 64-70)
  is_alerting, last_alert_time, alert_count, stop_event, alert_thread,
  \* the playback threads started so far, and the wall clock
  thread, now,
  \* the caller's position: "idle", or "join" inside stop_alert's join
  pc, caller,
  \* history: the last step taken and the last trigger_alert() result
  op, ret,
  \* history: when the dispatcher last went IDLE->ALERTING / ALERTING->IDLE
  alert_start, alert_end,
  \* history: threads whose alert was stopped (the stop signal was set for them)
  cancelled,
  \* the audio backend: "init" after pygame.mixer.init(), "quit" after
  \* pygame.mixer.quit()
  mixer,
  \* EyeTracker: configuration (eye_tracker.py 56-58)
  history_size, drowsy_frames_threshold,
  \* EyeTracker: state (eye_tracker.py 61-64)
  ear_history, closed_frame_count, blink_count, is_blinking,
  \* history: the last eye step, frames processed, current run of closed frames
  eye_op, frames, run,
  \* history: the average EAR given by the last process_eyes since
  \* construction or reset, and the number of these calls
  ear_in, calls,
  \* YawnDetector: configuration (yawn_detector.py 64-66)
  min_yawn_frames, mar_history_size, consecutive_yawns_alert,
  \* YawnDetector: state (yawn_detector.py 69-74)
  mar_history, yawn_frame_count, total_yawns, is_yawning, recent_yawns,
  frame_number,
  \* history: the last yawn step, the current run of open-mouth frames and
  \* the frame numbers at which a yawn was counted since the last reset
  yawn_op, open_run, yawned_at,
  \* history: the yawns the reset just made has wiped
  yawns_cleared,
  \* calculate_ear / calculate_mar: the argument, the value returned and the
  \* function called
  landmarks, ratio, ratio_op,
  \* DrowsinessDetector: state (drowsiness_detector.py 212-213)
  frame_count, start_time,
  \* the DetectionResult last returned by process_frame
  result,
  \* history: the last orchestrator step, the frame it was given and the
  \* calls made on the orchestrator so far
  det_op, frame_in, det_calls,
  \* history: the call the last process_frame made on the dispatcher
  alert_call,
  \* the component whose interface the client drives
  driven,
  \* VideoStream: state (video_stream.py 55-58): self.capture, self.frame,
  \* self.grabbed, self.stopped
  capture, latest_frame, grabbed, stopped,
  \* VideoStream: self.thread with the position of _update in its loop, the
  \* pair its capture.read() returned, and self.frame_count
  capture_thread, cap_ret, stream_frame_count,
  \* the camera behind the capture object, the reads that gave it a frame and
  \* the release() calls made on it
  camera, camera_reads, releases,
  \* the consumer: its position inside read() or stop(), the grabbed flag it
  \* has loaded, what read() last returned and the frames returned so far
  main_pc, r_grabbed, read_ret, returned,
  \* history: the slot was written since a read() that returned last loaded
  \* it
  fresh,
  \* main(): "startup", "loop" once start() has returned, "exit" once it has
  \* raised
  session,
  \* history: the last step on the stream and the stop() calls that returned
  video_op, stops,
  \* history: the read() results main() has dropped for want of a frame
  skipped

alertCfg == <<sound_enabled, visual_enabled, cooldown_seconds>>
alertState == <<is_alerting, last_alert_time, alert_count, stop_event,
                alert_thread, thread>>
alertVars == <<alertCfg, alertState, now, pc, caller, op, ret,
               alert_start, alert_end, cancelled>>
eyeCfg == <<history_size, drowsy_frames_threshold>>
eyeState == <<ear_history, closed_frame_count, blink_count, is_blinking>>
eyeVars == <<eyeCfg, eyeState, eye_op, frames, run, ear_in, calls>>
yawnCfg == <<min_yawn_frames, mar_history_size, consecutive_yawns_alert>>
yawnState == <<mar_history, yawn_frame_count, total_yawns, is_yawning,
               recent_yawns, frame_number>>
yawnVars == <<yawnCfg, yawnState, yawn_op, open_run, yawned_at,
              yawns_cleared>>
ratioVars == <<landmarks, ratio, ratio_op>>
detVars == <<frame_count, start_time, result, det_op, frame_in, det_calls,
             alert_call>>
streamState == <<capture, latest_frame, grabbed, stopped>>
videoVars == <<streamState, capture_thread, cap_ret, stream_frame_count,
               camera, camera_reads, releases, main_pc, r_grabbed, read_ret,
               returned, fresh, session, video_op, stops>>
vars == <<alertVars, eyeVars, yawnVars, ratioVars, detVars, driven,
          videoVars, mixer, skipped>>

\* what a step of one component leaves alone
notDispatcher ==
  <<eyeVars, yawnVars, ratioVars, detVars, driven, videoVars, skipped>>
notAlert == <<notDispatcher, mixer>>
notEye ==
  <<alertVars, yawnVars, ratioVars, detVars, driven, videoVars, mixer, skipped>>
notYawn ==
  <<alertVars, eyeVars, ratioVars, detVars, driven, videoVars, mixer, skipped>>
notTracker ==
  <<alertVars, ratioVars, detVars, driven, videoVars, mixer, skipped>>
notRatio ==
  <<alertVars, eyeVars, yawnVars, detVars, driven, videoVars, mixer, skipped>>
notDetector ==
  <<ratioVars, driven, videoVars, mixer, skipped>>
notVideo ==
  <<alertVars, eyeVars, yawnVars, ratioVars, detVars, driven, mixer,
    skipped>>

(***************************************************************************)
(* AlertSystem                                                             *)
(***************************************************************************)
Threads == 1..MaxThreads
\* _alert_thread = None
None == 0

\* last_alert_time = 0.0: no alert yet
NoTime == 0

\* time.time() at construction: far beyond any cooldown after the 0.0 of
\* last_alert_time
Epoch == MaxCooldown + 1
MaxTime == Epoch + MaxTicks

\* stop_alert's join(timeout=1.0)
JoinTimeout == 1

Live == {"looping", "stopped", "raised"}
LiveThreads == {t \in Threads : thread[t] \in Live}
FreeThreads == {t \in Threads : thread[t] = "unborn"}
NewThread == CHOOSE t \in FreeThreads : \A u \in FreeThreads : t <= u

\* AlertSystem(sound_enabled, sound_file, visual_enabled, cooldown_seconds)
AlertConstruct(se, ve, cd) ==
  /\ sound_enabled = se
  /\ visual_enabled = ve
  /\ cooldown_seconds = cd
  /\ is_alerting = FALSE
  /\ last_alert_time = NoTime
  /\ alert_count = 0
  /\ stop_event = FALSE
  /\ alert_thread = None
  /\ thread = [t \in Threads |-> "unborn"]
  /\ now = Epoch
  /\ pc = "idle"
  /\ caller = "none"
  /\ op = "init"
  /\ ret = FALSE
  /\ alert_start = NoTime
  /\ alert_end = NoTime
  /\ cancelled = [t \in Threads |-> FALSE]
  /\ mixer = "init"

\* history bookkeeping, evaluated after is_alerting' and now' are set
Stamp ==
  /\ alert_start' = IF ~is_alerting /\ is_alerting' THEN now' ELSE alert_start
  /\ alert_end' = IF is_alerting /\ ~is_alerting' THEN now' ELSE alert_end

\* the cooldown test of trigger_alert
OnCooldownDropped == FALSE

OnCooldown == now - last_alert_time < cooldown_seconds

AlreadyAlertingIgnored == FALSE

AlreadyAlerting == is_alerting

RecordedAlertTimeStale == last_alert_time

\* the timestamp a successful trigger_alert records
RecordedAlertTime == now

NextAlertCountDouble == alert_count + 2

\* self.alert_count += 1
NextAlertCount == alert_count + 1

StartsPlaybackAlways == TRUE

\* a playback thread is started only with sound enabled
StartsPlayback == sound_enabled

\* trigger_alert(alert_type): one step of the calling thread
Trigger ==
  /\ pc = "idle"
  /\ IF OnCooldown \/ AlreadyAlerting
       THEN /\ ret' = FALSE
            /\ UNCHANGED alertState
       ELSE /\ alert_count < MaxAlerts
            /\ StartsPlayback => FreeThreads # {}
            /\ ret' = TRUE
            /\ is_alerting' = TRUE
            /\ last_alert_time' = RecordedAlertTime
            /\ alert_count' = NextAlertCount
            /\ IF StartsPlayback
                 THEN /\ stop_event' = FALSE
                      /\ alert_thread' = NewThread
                      /\ thread' = [thread EXCEPT ![NewThread] = "looping"]
                 ELSE UNCHANGED <<stop_event, alert_thread, thread>>
  /\ op' = "trigger"
  /\ UNCHANGED <<alertCfg, now, pc, caller, cancelled>>
  /\ Stamp

\* _play_alert: the polling loop sees the stop signal and leaves the loop
PlayPoll(t) ==
  /\ thread[t] = "looping"
  /\ stop_event
  /\ thread' = [thread EXCEPT ![t] = "stopped"]
  /\ op' = "play"
  /\ UNCHANGED <<alertCfg, is_alerting, last_alert_time, alert_count,
                 stop_event, alert_thread, now, pc, caller, ret, cancelled>>
  /\ Stamp

\* _play_alert: the audio backend raises; the exception is caught and logged
PlayRaise(t) ==
  /\ thread[t] = "looping"
  /\ thread' = [thread EXCEPT ![t] = "raised"]
  /\ op' = "play"
  /\ UNCHANGED <<alertCfg, is_alerting, last_alert_time, alert_count,
                 stop_event, alert_thread, now, pc, caller, ret, cancelled>>
  /\ Stamp

\* _play_alert: the finally clause, then the thread ends
PlayFinally(t) ==
  /\ thread[t] \in {"stopped", "raised"}
  /\ is_alerting' = FALSE
  /\ thread' = [thread EXCEPT ![t] = "dead"]
  /\ op' = "play"
  /\ UNCHANGED <<alertCfg, last_alert_time, alert_count, stop_event,
                 alert_thread, now, pc, caller, ret, cancelled>>
  /\ Stamp

\* what stop_alert leaves in is_alerting once its join is over
AfterStopKept == is_alerting

AfterStop == FALSE

ResetCountersKeepCooldown ==
  /\ alert_count' = 0
  /\ last_alert_time' = last_alert_time
  /\ alert_start' = NoTime
  /\ alert_end' = NoTime

ResetCountersKeepCount ==
  /\ alert_count' = alert_count
  /\ last_alert_time' = NoTime
  /\ alert_start' = NoTime
  /\ alert_end' = NoTime

\* the statements of reset() after its stop_alert() call
ResetCounters ==
  /\ alert_count' = 0
  /\ last_alert_time' = NoTime
  /\ alert_start' = NoTime
  /\ alert_end' = NoTime

\* stop_alert(), up to its join; the whole call when there is nothing to join
StopAlert ==
  /\ pc = "idle"
  /\ IF ~is_alerting
       THEN /\ op' = "stop"
            /\ UNCHANGED <<alertState, pc, caller, cancelled>>
       ELSE /\ stop_event' = TRUE
            /\ IF alert_thread # None
                 THEN /\ pc' = "join"
                      /\ caller' = "stop"
                      /\ op' = "join"
                      /\ cancelled' = [cancelled EXCEPT ![alert_thread] = TRUE]
                      /\ UNCHANGED is_alerting
                 ELSE /\ is_alerting' = AfterStop
                      /\ op' = "stop"
                      /\ UNCHANGED <<pc, caller, cancelled>>
            /\ UNCHANGED <<last_alert_time, alert_count, alert_thread, thread>>
  /\ UNCHANGED <<alertCfg, now, ret>>
  /\ Stamp

\* reset(), up to the join of its stop_alert(); the whole call otherwise
Reset ==
  /\ pc = "idle"
  /\ IF ~is_alerting
       THEN /\ op' = "reset"
            /\ ResetCounters
            /\ UNCHANGED <<is_alerting, stop_event, pc, caller, cancelled>>
       ELSE /\ stop_event' = TRUE
            /\ IF alert_thread # None
                 THEN /\ pc' = "join"
                      /\ caller' = "reset"
                      /\ op' = "join"
                      /\ cancelled' = [cancelled EXCEPT ![alert_thread] = TRUE]
                      /\ UNCHANGED <<is_alerting, last_alert_time, alert_count>>
                      /\ Stamp
                 ELSE /\ is_alerting' = AfterStop
                      /\ op' = "reset"
                      /\ ResetCounters
                      /\ UNCHANGED <<pc, caller, cancelled>>
  /\ UNCHANGED <<alertCfg, alert_thread, thread, now, ret>>

\* cleanup(), up to the join of its stop_alert(); the whole call otherwise:
\* stop_alert(), then pygame.mixer.quit()
Cleanup ==
  /\ pc = "idle"
  /\ IF ~is_alerting
       THEN /\ op' = "cleanup"
            /\ mixer' = "quit"
            /\ UNCHANGED <<alertState, pc, caller, cancelled>>
       ELSE /\ stop_event' = TRUE
            /\ IF alert_thread # None
                 THEN /\ pc' = "join"
                      /\ caller' = "cleanup"
                      /\ op' = "join"
                      /\ cancelled' = [cancelled EXCEPT ![alert_thread] = TRUE]
                      /\ UNCHANGED <<is_alerting, mixer>>
                 ELSE /\ is_alerting' = AfterStop
                      /\ op' = "cleanup"
                      /\ mixer' = "quit"
                      /\ UNCHANGED <<pc, caller, cancelled>>
            /\ UNCHANGED <<last_alert_time, alert_count, alert_thread, thread>>
  /\ UNCHANGED <<alertCfg, now, ret>>
  /\ Stamp

\* the rest of cleanup() once the join of its stop_alert() is over
CleanupAfterJoin ==
  mixer' = IF caller = "cleanup" THEN "quit" ELSE mixer

\* the rest of stop_alert() (and of reset()) once join() has returned
AfterJoin ==
  /\ is_alerting' = AfterStop
  /\ pc' = "idle"
  /\ op' = caller
  /\ caller' = "none"
  /\ UNCHANGED <<alertCfg, stop_event, alert_thread, thread, ret, cancelled>>

\* join() returns because the playback thread has ended
JoinReturns ==
  /\ pc = "join"
  /\ thread[alert_thread] = "dead"
  /\ AfterJoin
  /\ UNCHANGED now
  /\ IF caller = "reset"
       THEN ResetCounters
       ELSE UNCHANGED <<alert_count, last_alert_time>> /\ Stamp

\* join(timeout=1.0) gives up: a second has passed and the thread still runs
JoinTimesOut ==
  /\ pc = "join"
  /\ thread[alert_thread] # "dead"
  /\ now + JoinTimeout <= MaxTime
  /\ now' = now + JoinTimeout
  /\ AfterJoin
  /\ IF caller = "reset"
       THEN ResetCounters
       ELSE UNCHANGED <<alert_count, last_alert_time>> /\ Stamp

\* should_show_visual_alert()
ShouldShowVisualAlert == visual_enabled /\ is_alerting

\* a second passes
Tick ==
  /\ now < MaxTime
  /\ now' = now + 1
  /\ op' = "tick"
  /\ UNCHANGED <<alertCfg, alertState, pc, caller, ret, alert_start,
                 alert_end, cancelled>>

(***************************************************************************)
(* EyeTracker                                                              *)
(***************************************************************************)
\* EyeTracker(ear_threshold, history_size, drowsy_frames_threshold)
EyeConstruct(hs, dft) ==
  /\ history_size = hs
  /\ drowsy_frames_threshold = dft
  /\ ear_history = <<>>
  /\ closed_frame_count = 0
  /\ blink_count = 0
  /\ is_blinking = FALSE
  /\ eye_op = "init"
  /\ frames = 0
  /\ run = 0
  /\ ear_in = 0
  /\ calls = 0

\* ear_threshold: float = 0.25
ear_threshold == 25

\* calculate_ear results fed to process_eyes, in hundredths; even, so that
\* (left_ear + right_ear) / 2.0 is a whole number of hundredths
EarValues == {22, 24, 26}

DequeAppendUnbounded(h, x, n) == Append(h, x)

\* deque(maxlen=n).append(x)
DequeAppend(h, x, n) ==
  IF n = 0 THEN <<>>
  ELSE IF Len(h) >= n THEN Append(Tail(h), x)
  ELSE Append(h, x)

BlinkDetectedAtThreshold ==
  /\ is_blinking
  /\ closed_frame_count > 0
  /\ closed_frame_count <= drowsy_frames_threshold

BlinkDetectedLate ==
  /\ is_blinking
  /\ closed_frame_count > 1
  /\ closed_frame_count < drowsy_frames_threshold

\* the test that counts a blink when the eyes reopen
BlinkDetected ==
  /\ is_blinking
  /\ closed_frame_count > 0
  /\ closed_frame_count < drowsy_frames_threshold

\* process_eyes(left_eye, right_eye), from the two eyes' EAR on
ProcessEyes(left_ear, right_ear) ==
  LET avg_ear == (left_ear + right_ear) \div 2
      is_closed == avg_ear < ear_threshold
  IN /\ frames < MaxFrames
     /\ ear_history' = DequeAppend(ear_history, avg_ear, history_size)
     /\ IF is_closed
          THEN /\ closed_frame_count' = closed_frame_count + 1
               /\ UNCHANGED blink_count
          ELSE /\ blink_count' = IF BlinkDetected THEN blink_count + 1
                                                  ELSE blink_count
               /\ closed_frame_count' = 0
     /\ is_blinking' = is_closed
     /\ eye_op' = "process"
     /\ frames' = frames + 1
     /\ run' = IF avg_ear < ear_threshold THEN run + 1 ELSE 0
     /\ ear_in' = avg_ear
     /\ calls' = calls + 1
     /\ UNCHANGED eyeCfg

IsDrowsyEarly == closed_frame_count + 1 >= drowsy_frames_threshold

\* is_drowsy()
IsDrowsy == closed_frame_count >= drowsy_frames_threshold

Min(a, b) == IF a <= b THEN a ELSE b

\* a score is a fraction num/den of the 0-100 scale; den = 0 stands for the
\* ZeroDivisionError raised instead of a value
Score(n, d) == [num |-> n, den |-> d]
ZeroDivisionError == Score(0, 0)
Raised(s) == s.den = 0

\* sum(1 for ear in self.ear_history if ear < self.ear_threshold)
ThresholdCrossings ==
  Cardinality({i \in 1..Len(ear_history) : ear_history[i] < ear_threshold})

\* get_drowsiness_score(): threshold_crossings / len * 50 plus
\* min(closed_frame_count / drowsy_frames_threshold, 1.0) * 50, capped at
\* 100.0, over the common denominator len * drowsy_frames_threshold
GetDrowsinessScore ==
  IF ear_history = <<>> THEN Score(0, 1)
  ELSE IF drowsy_frames_threshold = 0 THEN ZeroDivisionError
  ELSE LET den == Len(ear_history) * drowsy_frames_threshold
           history_score == ThresholdCrossings * 50 * drowsy_frames_threshold
           closure_score == Min(closed_frame_count, drowsy_frames_threshold)
                              * 50 * Len(ear_history)
       IN Score(Min(history_score + closure_score, 100 * den), den)

EyeResetKeepBlinking ==
  /\ ear_history' = <<>>
  /\ closed_frame_count' = 0
  /\ blink_count' = 0
  /\ is_blinking' = is_blinking
  /\ eye_op' = "reset"
  /\ run' = 0
  /\ calls' = 0
  /\ ear_in' = 0
  /\ UNCHANGED <<eyeCfg, frames>>

\* EyeTracker.reset()
EyeReset ==
  /\ ear_history' = <<>>
  /\ closed_frame_count' = 0
  /\ blink_count' = 0
  /\ is_blinking' = FALSE
  /\ eye_op' = "reset"
  /\ run' = 0
  /\ calls' = 0
  /\ ear_in' = 0
  /\ UNCHANGED <<eyeCfg, frames>>

(***************************************************************************)
(* YawnDetector                                                            *)
(***************************************************************************)
\* YawnDetector(mar_threshold, min_yawn_frames, history_size,
\* consecutive_yawns_alert)
YawnConstruct(myf, hs, cya) ==
  /\ min_yawn_frames = myf
  /\ mar_history_size = hs
  /\ consecutive_yawns_alert = cya
  /\ mar_history = <<>>
  /\ yawn_frame_count = 0
  /\ total_yawns = 0
  /\ is_yawning = FALSE
  /\ recent_yawns = <<>>
  /\ frame_number = 0
  /\ yawn_op = "init"
  /\ open_run = 0
  /\ yawned_at = {}
  /\ yawns_cleared = 0

\* mar_threshold: float = 0.75
mar_threshold == 75

\* calculate_mar results fed to process_mouth, in hundredths: at the
\* threshold (not open) and above it (open)
MarValues == {75, 80}

\* recent_window = 90
recent_window == 90

RecentCapacityBelowWindow == recent_window \div 2 - 5

\* recent_yawns = deque(maxlen=100)
RecentCapacity == 100

\* currently_open = mar > self.mar_threshold
CurrentlyOpen(mar) == mar > mar_threshold

YawnFrameCountKept == yawn_frame_count

YawnFinishedLate == is_yawning /\ yawn_frame_count > min_yawn_frames

\* the test that counts a yawn when the mouth closes
YawnFinished == is_yawning /\ yawn_frame_count >= min_yawn_frames

YawningUndebounced(currently_open, count) == currently_open

\* is_yawning = currently_open and yawn_frame_count >= min_yawn_frames
Yawning(currently_open, count) ==
  currently_open /\ count >= min_yawn_frames

\* process_mouth(mouth_landmarks), from the mouth's MAR on
ProcessMouth(mar) ==
  /\ frame_number' = frame_number + 1
  /\ mar_history' = DequeAppend(mar_history, mar, mar_history_size)
  /\ IF CurrentlyOpen(mar)
       THEN /\ yawn_frame_count' = yawn_frame_count + 1
            /\ UNCHANGED <<total_yawns, recent_yawns, yawned_at>>
       ELSE /\ IF YawnFinished
                 THEN /\ total_yawns' = total_yawns + 1
                      /\ recent_yawns' = DequeAppend(recent_yawns,
                                           frame_number', RecentCapacity)
                      /\ yawned_at' = yawned_at \cup {frame_number'}
                 ELSE UNCHANGED <<total_yawns, recent_yawns, yawned_at>>
            /\ yawn_frame_count' = 0
  /\ is_yawning' = Yawning(CurrentlyOpen(mar), yawn_frame_count')
  /\ yawn_op' = "process"
  /\ open_run' = IF mar > mar_threshold THEN open_run + 1 ELSE 0
  /\ yawns_cleared' = 0
  /\ UNCHANGED yawnCfg

InWindowInclusive(frame) == frame_number - frame <= recent_window

\* self.frame_number - frame < recent_window
InWindow(frame) == frame_number - frame < recent_window

\* is_fatigue_indicated()
IsFatigueIndicated ==
  Cardinality({i \in 1..Len(recent_yawns) : InWindow(recent_yawns[i])})
    >= consecutive_yawns_alert

\* self.yawn_frame_count = 0
YawnFrameCountCleared == 0

\* YawnDetector.reset()
YawnReset ==
  /\ mar_history' = <<>>
  /\ yawn_frame_count' = YawnFrameCountCleared
  /\ total_yawns' = 0
  /\ is_yawning' = FALSE
  /\ recent_yawns' = <<>>
  /\ frame_number' = 0
  /\ yawn_op' = "reset"
  /\ open_run' = 0
  /\ yawned_at' = {}
  /\ yawns_cleared' = total_yawns
  /\ UNCHANGED yawnCfg

\* frames fed to a yawn detector on its own: the mouth may open during the
\* first MaxActiveFrames frames and stays closed for the rest of the run,
\* long enough for every counted yawn to leave the trailing window
MaxMouthFrames == MaxActiveFrames + recent_window + 1
MouthFrame ==
  \E mar \in MarValues :
    /\ frame_number < MaxMouthFrames
    /\ frame_number < MaxActiveFrames \/ ~CurrentlyOpen(mar)
    /\ ProcessMouth(mar)

(***************************************************************************)
(* calculate_ear and calculate_mar                                         *)
(***************************************************************************)
\* landmark coordinates are whole pixels
Grid == (0..MaxCoord) \X (0..MaxCoord)

\* element i of a numpy array
At(a, i) == a[i + 1]

Abs(x) == IF x < 0 THEN -x ELSE x

\* scipy.spatial.distance.euclidean, in tenths of a pixel, rounded down
Euclidean(p, q) ==
  LET dx == p[1] - q[1]
      dy == p[2] - q[2]
      n == 100 * (dx * dx + dy * dy)
  IN CHOOSE r \in 0..(10 * (Abs(dx) + Abs(dy))) :
       r * r <= n /\ n < (r + 1) * (r + 1)

\* what a float division by a zero distance gives: no finite ratio
NotFinite == -1

\* a / b in hundredths
Divide(a, b) == IF b = 0 THEN NotFinite ELSE (100 * a) \div b

ZeroWidthIgnored(C) == FALSE

\* if C == 0
ZeroWidth(C) == C = 0

\* if C == 0: return 0.0, else (A + B) / (2.0 * C)
AspectRatio(A, B, C) ==
  IF ZeroWidth(C) THEN 0 ELSE Divide(A + B, 2 * C)

\* calculate_ear(eye_landmarks)
CalculateEar(eye_landmarks) ==
  LET A == Euclidean(At(eye_landmarks, 1), At(eye_landmarks, 5))
      B == Euclidean(At(eye_landmarks, 2), At(eye_landmarks, 4))
      C == Euclidean(At(eye_landmarks, 0), At(eye_landmarks, 3))
  IN AspectRatio(A, B, C)

\* calculate_mar(mouth_landmarks)
CalculateMar(mouth_landmarks) ==
  IF Len(mouth_landmarks) >= 20
    THEN LET inner_start == 12
             top_inner == At(mouth_landmarks, inner_start + 2)
             bottom_inner == At(mouth_landmarks, inner_start + 6)
             top_inner2 == At(mouth_landmarks, inner_start + 3)
             bottom_inner2 == At(mouth_landmarks, inner_start + 5)
             left_corner == At(mouth_landmarks, inner_start)
             right_corner == At(mouth_landmarks, inner_start + 4)
         IN AspectRatio(Euclidean(top_inner, bottom_inner),
                        Euclidean(top_inner2, bottom_inner2),
                        Euclidean(left_corner, right_corner))
    ELSE AspectRatio(Euclidean(At(mouth_landmarks, 2),
                               At(mouth_landmarks, 10)),
                     Euclidean(At(mouth_landmarks, 4),
                               At(mouth_landmarks, 8)),
                     Euclidean(At(mouth_landmarks, 0),
                               At(mouth_landmarks, 6)))

\* the arrays handed to the two functions: six eye points, or a mouth of 20
\* or 12 points. The two corners and the two lower points that the function
\* reads lie anywhere on the grid, so that the width and both heights take
\* every value; the other points are left at the origin
ArrayKinds ==
  {[n |-> 6, varied |-> <<1, 4, 5, 6>>],
   [n |-> 20, varied |-> <<13, 17, 18, 19>>],
   [n |-> 12, varied |-> <<1, 7, 9, 11>>]}
ArrayOf(kind, f) ==
  [i \in 1..kind.n |->
     IF \E k \in 1..4 : kind.varied[k] = i
       THEN f[CHOOSE k \in 1..4 : kind.varied[k] = i]
       ELSE <<0, 0>>]

\* an array waiting to be measured
RatioConstruct(a) ==
  /\ landmarks = a
  /\ ratio = 0
  /\ ratio_op = "init"

\* a call of calculate_ear on the array
EarOfLandmarks ==
  /\ ratio_op = "init"
  /\ Len(landmarks) = 6
  /\ ratio' = CalculateEar(landmarks)
  /\ ratio_op' = "ear"
  /\ UNCHANGED landmarks

\* a call of calculate_mar on the array
MarOfLandmarks ==
  /\ ratio_op = "init"
  /\ Len(landmarks) >= 12
  /\ ratio' = CalculateMar(landmarks)
  /\ ratio_op' = "mar"
  /\ UNCHANGED landmarks

(***************************************************************************)
(* DrowsinessDetector                                                      *)
(***************************************************************************)
\* EyeTracker's history_size: int = 30
DefaultHistorySize == 30

\* YawnDetector's min_yawn_frames: int = 15 and history_size: int = 30
DefaultMinYawnFrames == 15
DefaultMarHistorySize == 30

\* head_pose_threshold: float = 30, handed to HeadPoseEstimator as
\* pitch_threshold; roll_threshold: float = 20.0
pitch_threshold == 30
roll_threshold == 20

\* DetectionResult(): every field at its default (landmarks and
\* processing_time_ms, which no decision reads, are left out)
DetectionResult ==
  [face_detected |-> FALSE,
   ear |-> 0, left_ear |-> 0, right_ear |-> 0, eyes_closed |-> FALSE,
   blink_count |-> 0,
   mar |-> 0, is_yawning |-> FALSE, yawn_count |-> 0,
   pitch |-> 0, yaw |-> 0, roll |-> 0, head_down |-> FALSE,
   head_tilted |-> FALSE,
   drowsiness_score |-> Score(0, 1), is_drowsy |-> FALSE,
   is_fatigued |-> FALSE]

\* what cv2.solvePnP and the Euler conversion make of a face: failure, or
\* pitch and roll in degrees
FailedPose == [solved |-> FALSE, pitch |-> 0, roll |-> 0]
PitchValues == {-31, -30}
RollValues == {0}
\* a failed solve: the rotation it leaves behind is not used
UnsolvedPose == [solved |-> FALSE, pitch |-> -31, roll |-> 21]
PoseInputs ==
  {UnsolvedPose} \cup
  {[solved |-> TRUE, pitch |-> p, roll |-> r] :
     p \in PitchValues, r \in RollValues}

EstimatePoseUnchecked(pose) ==
  [pitch |-> pose.pitch, yaw |-> 0, roll |-> pose.roll,
   is_head_down |-> pose.pitch < -pitch_threshold,
   is_head_tilted |-> Abs(pose.roll) > roll_threshold]

\* estimate_pose(landmarks, frame_shape)
EstimatePose(pose) ==
  IF ~pose.solved
    THEN [pitch |-> 0, yaw |-> 0, roll |-> 0,
          is_head_down |-> FALSE, is_head_tilted |-> FALSE]
    ELSE [pitch |-> pose.pitch, yaw |-> 0, roll |-> pose.roll,
          is_head_down |-> pose.pitch < -pitch_threshold,
          is_head_tilted |-> Abs(pose.roll) > roll_threshold]

\* a frame: no face found by get_landmarks, or a face with the EAR of its
\* eyes, the MAR of its mouth and its pose
NoFace ==
  [face |-> FALSE, left_ear |-> 0, right_ear |-> 0, mar |-> 0,
   pose |-> FailedPose]
EarPairs == {<<22, 24>>, <<26, 26>>}
Faces ==
  {[face |-> TRUE, left_ear |-> e[1], right_ear |-> e[2], mar |-> m,
    pose |-> p] : e \in EarPairs, m \in MarValues, p \in PoseInputs}
Frames == {NoFace} \cup Faces

\* DrowsinessDetector(config): the components' constructors are called with
\* the configured thresholds and their own defaults otherwise
DetectorConstruct(se, ve, cd, dft, cya) ==
  /\ AlertConstruct(se, ve, cd)
  /\ EyeConstruct(DefaultHistorySize, dft)
  /\ YawnConstruct(DefaultMinYawnFrames, DefaultMarHistorySize, cya)
  /\ frame_count = 0
  /\ start_time = Epoch
  /\ result = DetectionResult
  /\ det_op = "init"
  /\ frame_in = NoFace
  /\ det_calls = 0
  /\ alert_call = "none"

\* the orchestrator's own variables beside components used on their own
DetectorParked ==
  /\ frame_count = 0
  /\ start_time = Epoch
  /\ result = DetectionResult
  /\ det_op = "init"
  /\ frame_in = NoFace
  /\ det_calls = 0
  /\ alert_call = "none"

YawnFatigueHeavy(fatigue) == IF fatigue THEN 50 ELSE 0

\* yawn_fatigue = 30.0 if is_fatigue_indicated() else 0.0
YawnFatigue(fatigue) == IF fatigue THEN 30 ELSE 0

\* head_drowsiness = 20.0 if head_metrics.is_head_down else 0.0
HeadDrowsiness(head_down) == IF head_down THEN 20 ELSE 0

\* min(eye_drowsiness + yawn_fatigue + head_drowsiness, 100.0)
FusedScore(eye_drowsiness, yawn_fatigue, head_drowsiness) ==
  Score(Min(eye_drowsiness.num
              + (yawn_fatigue + head_drowsiness) * eye_drowsiness.den,
            100 * eye_drowsiness.den),
        eye_drowsiness.den)

FrameIsDrowsyEyesOnly(eye_drowsy, head_down) == eye_drowsy

FrameCountedNot == frame_count

\* self.frame_count += 1
FrameCounted == frame_count + 1

\* result.is_drowsy = self.eye_tracker.is_drowsy() or is_head_down
FrameIsDrowsy(eye_drowsy, head_down) == eye_drowsy \/ head_down

AlertCallFatigueFirst(drowsy, fatigue, eyes_closed, yawning) ==
  IF fatigue THEN "fatigue"
  ELSE IF drowsy THEN "drowsiness"
  ELSE IF ~eyes_closed /\ ~yawning THEN "stop"
  ELSE "none"

\* the alert policy of process_frame: the one call made on the dispatcher,
\* trigger_alert with its alert_type, stop_alert(), or none
AlertCall(drowsy, fatigue, eyes_closed, yawning) ==
  IF drowsy THEN "drowsiness"
  ELSE IF fatigue THEN "fatigue"
  ELSE IF ~eyes_closed /\ ~yawning THEN "stop"
  ELSE "none"

\* process_frame(frame), up to the join of its stop_alert() if it makes one
ProcessFrame(frame) ==
  /\ pc = "idle"
  /\ det_calls < MaxDetectorCalls
  /\ det_calls' = det_calls + 1
  /\ frame_count' = FrameCounted
  /\ frame_in' = frame
  /\ UNCHANGED start_time
  /\ IF ~frame.face
       THEN /\ result' = DetectionResult
            /\ det_op' = "frame"
            /\ alert_call' = "none"
            /\ UNCHANGED <<alertVars, eyeVars, yawnVars>>
       ELSE /\ ProcessEyes(frame.left_ear, frame.right_ear)
            /\ ProcessMouth(frame.mar)
            /\ LET head_metrics == EstimatePose(frame.pose)
                   eye_drowsiness == GetDrowsinessScore'
                   fatigue == IsFatigueIndicated'
                   drowsy == FrameIsDrowsy(IsDrowsy',
                                           head_metrics.is_head_down)
                   eyes_closed ==
                     (frame.left_ear + frame.right_ear) \div 2
                       < ear_threshold
                   call == AlertCall(drowsy, fatigue, eyes_closed,
                                     is_yawning')
               IN IF Raised(eye_drowsiness)
                    THEN /\ det_op' = "raised"
                         /\ alert_call' = "none"
                         /\ UNCHANGED <<result, alertVars>>
                    ELSE /\ det_op' = "frame"
                         /\ result' =
                              [face_detected |-> TRUE,
                               ear |-> (frame.left_ear + frame.right_ear)
                                         \div 2,
                               left_ear |-> frame.left_ear,
                               right_ear |-> frame.right_ear,
                               eyes_closed |-> eyes_closed,
                               blink_count |-> blink_count',
                               mar |-> frame.mar,
                               is_yawning |-> is_yawning',
                               yawn_count |-> total_yawns',
                               pitch |-> head_metrics.pitch,
                               yaw |-> head_metrics.yaw,
                               roll |-> head_metrics.roll,
                               head_down |-> head_metrics.is_head_down,
                               head_tilted |-> head_metrics.is_head_tilted,
                               drowsiness_score |->
                                 FusedScore(eye_drowsiness,
                                   YawnFatigue(fatigue),
                                   HeadDrowsiness(
                                     head_metrics.is_head_down)),
                               is_drowsy |-> drowsy,
                               is_fatigued |-> fatigue]
                         /\ alert_call' = call
                         /\ IF call \in {"drowsiness", "fatigue"}
                              THEN Trigger
                            ELSE IF call = "stop" THEN StopAlert
                            ELSE UNCHANGED alertVars
  /\ UNCHANGED notDetector

\* the statements of DrowsinessDetector.reset() after alert_system.reset()
DetectorAfterReset ==
  /\ frame_count' = 0
  /\ start_time' = now'
  /\ det_op' = "reset"
  /\ UNCHANGED <<result, frame_in, det_calls, alert_call>>

\* DrowsinessDetector.reset(), up to the join inside alert_system.reset()
DetectorReset ==
  /\ det_calls < MaxDetectorCalls
  /\ EyeReset
  /\ YawnReset
  /\ Reset
  /\ IF pc' = "join"
       THEN /\ det_calls' = det_calls + 1
            /\ det_op' = "join"
            /\ UNCHANGED <<frame_count, start_time, result, frame_in,
                           alert_call>>
       ELSE /\ frame_count' = 0
            /\ start_time' = now'
            /\ det_op' = "reset"
            /\ det_calls' = det_calls + 1
            /\ UNCHANGED <<result, frame_in, alert_call>>
  /\ UNCHANGED notDetector

\* the rest of the orchestrator's call once the join has returned
DetectorAfterJoin ==
  /\ IF caller = "reset"
       THEN DetectorAfterReset
       ELSE UNCHANGED detVars
  /\ UNCHANGED <<eyeVars, yawnVars, notDetector>>

(***************************************************************************)
(* VideoStream                                                             *)
(***************************************************************************)
\* self.frame = None
NoFrame == 0

\* what capture.read() returns when no frame was grabbed
NoRead == <<FALSE, NoFrame>>

\* VideoStream(device_id, width, height, fps)
VideoConstruct ==
  /\ capture = "none"
  /\ latest_frame = NoFrame
  /\ grabbed = FALSE
  /\ stopped = TRUE
  /\ capture_thread = "none"
  /\ cap_ret = NoRead
  /\ stream_frame_count = 0
  /\ camera = "unopened"
  /\ camera_reads = 0
  /\ releases = 0
  /\ main_pc = "idle"
  /\ r_grabbed = FALSE
  /\ read_ret = [grabbed |-> FALSE, frame |-> NoFrame, private |-> TRUE,
                 raised |-> FALSE]
  /\ returned = <<>>
  /\ fresh = FALSE
  /\ session = "startup"
  /\ video_op = "init"
  /\ stops = 0

\* the outcomes of opening the camera and of the first read after warm-up
StartOutcomes == {"not_opened", "no_frame", "frame"}

\* the positions of _update in which the capture thread is alive
Capturing ==
  {"test", "check", "call", "reading", "store_grabbed", "store_frame",
   "count"}

FirstReadFailedIgnored(first_grabbed) == FALSE

\* start(): if not self.grabbed: raise RuntimeError
FirstReadFailed(first_grabbed) == ~first_grabbed

\* start(), called by main() inside its try block: the camera does not open
\* and start() raises; or it opens, the warm-up reads are thrown away, the
\* first read gives no frame and start() raises; or the first read fills the
\* slot, the stop flag is cleared and the capture thread is started. main()
\* returns 1 when start() raises.
Start(outcome) ==
  /\ session = "startup"
  /\ main_pc = "idle"
  /\ capture' = "handle"
  /\ IF outcome = "not_opened"
       THEN /\ camera' = "unopened"
            /\ video_op' = "start_raised"
            /\ session' = "exit"
            /\ UNCHANGED <<latest_frame, grabbed, stopped, capture_thread,
                           camera_reads, fresh>>
       ELSE /\ camera' = "open"
            /\ grabbed' = (outcome = "frame")
            /\ camera_reads' =
                 IF grabbed' THEN camera_reads + 1 ELSE camera_reads
            /\ latest_frame' = IF grabbed' THEN camera_reads' ELSE NoFrame
            /\ fresh' = TRUE
            /\ IF FirstReadFailed(grabbed')
                 THEN /\ video_op' = "start_raised"
                      /\ session' = "exit"
                      /\ UNCHANGED <<stopped, capture_thread>>
                 ELSE /\ stopped' = FALSE
                      /\ capture_thread' = "test"
                      /\ video_op' = "start"
                      /\ session' = "loop"
  /\ UNCHANGED <<cap_ret, stream_frame_count, releases, main_pc, r_grabbed,
                 read_ret, returned, stops>>

\* _update: while not self.stopped
UpdateTest ==
  /\ capture_thread = "test"
  /\ capture_thread' = IF stopped THEN "done" ELSE "check"
  /\ video_op' = "update"
  /\ UNCHANGED <<streamState, cap_ret, stream_frame_count, camera,
                 camera_reads, releases, main_pc, r_grabbed, read_ret,
                 returned, fresh, session, stops>>

\* _update: if self.capture is None: break
UpdateCheck ==
  /\ capture_thread = "check"
  /\ capture_thread' = IF capture = "none" THEN "done" ELSE "call"
  /\ video_op' = "update"
  /\ UNCHANGED <<streamState, cap_ret, stream_frame_count, camera,
                 camera_reads, releases, main_pc, r_grabbed, read_ret,
                 returned, fresh, session, stops>>

\* _update: self.capture.read is looked up; on a cleared handle the lookup
\* raises AttributeError and the thread ends with it
UpdateCall ==
  /\ capture_thread = "call"
  /\ capture_thread' = IF capture = "none" THEN "crashed" ELSE "reading"
  /\ video_op' = "update"
  /\ UNCHANGED <<streamState, cap_ret, stream_frame_count, camera,
                 camera_reads, releases, main_pc, r_grabbed, read_ret,
                 returned, fresh, session, stops>>

\* _update: capture.read() returns a new frame, or no frame; a released
\* camera gives no frame
UpdateRead(ok) ==
  /\ capture_thread = "reading"
  /\ IF ok /\ camera = "open"
       THEN /\ camera_reads < MaxCameraReads
            /\ camera_reads' = camera_reads + 1
            /\ cap_ret' = <<TRUE, camera_reads'>>
       ELSE /\ cap_ret' = NoRead
            /\ UNCHANGED camera_reads
  /\ capture_thread' = "store_grabbed"
  /\ video_op' = "update"
  /\ UNCHANGED <<streamState, stream_frame_count, camera, releases, main_pc,
                 r_grabbed, read_ret, returned, fresh, session, stops>>

\* _update: self.grabbed, self.frame = ...: the first store
UpdateStoreGrabbed ==
  /\ capture_thread = "store_grabbed"
  /\ grabbed' = cap_ret[1]
  /\ capture_thread' = "store_frame"
  /\ video_op' = "update"
  /\ UNCHANGED <<capture, latest_frame, stopped, cap_ret,
                 stream_frame_count, camera, camera_reads, releases, main_pc,
                 r_grabbed, read_ret, returned, fresh, session, stops>>

\* _update: self.grabbed, self.frame = ...: the second store
UpdateStoreFrame ==
  /\ capture_thread = "store_frame"
  /\ latest_frame' = cap_ret[2]
  /\ capture_thread' = "count"
  /\ fresh' = TRUE
  /\ video_op' = "write"
  /\ UNCHANGED <<capture, grabbed, stopped, cap_ret, stream_frame_count,
                 camera, camera_reads, releases, main_pc, r_grabbed,
                 read_ret, returned, session, stops>>

\* _update: if self.grabbed: self.frame_count += 1, then the short sleep
UpdateCount ==
  /\ capture_thread = "count"
  /\ stream_frame_count' =
       IF grabbed THEN stream_frame_count + 1 ELSE stream_frame_count
  /\ capture_thread' = "test"
  /\ video_op' = "update"
  /\ UNCHANGED <<streamState, cap_ret, camera, camera_reads, releases,
                 main_pc, r_grabbed, read_ret, returned, fresh, session, stops>>

FrameAlias(f) == [frame |-> f, private |-> FALSE]

\* self.frame.copy(): the same content in an array of the caller's own
FrameCopy(f) == [frame |-> f, private |-> TRUE]

\* read(): self.grabbed is loaded
ReadGrabbed ==
  /\ session = "loop"
  /\ main_pc = "idle"
  /\ Len(returned) < MaxReads
  /\ r_grabbed' = grabbed
  /\ main_pc' = "read_test"
  /\ video_op' = "read_call"
  /\ UNCHANGED <<streamState, capture_thread, cap_ret, stream_frame_count,
                 camera, camera_reads, releases, read_ret, returned, fresh,
                 session, stops>>

\* read(): ... if self.frame is not None else None
ReadTest ==
  /\ main_pc = "read_test"
  /\ IF latest_frame = NoFrame
       THEN /\ read_ret' = [grabbed |-> r_grabbed, frame |-> NoFrame,
                            private |-> TRUE, raised |-> FALSE]
            /\ returned' = Append(returned, NoFrame)
            /\ fresh' = FALSE
            /\ main_pc' = "idle"
            /\ video_op' = "read"
       ELSE /\ main_pc' = "read_copy"
            /\ video_op' = "read_call"
            /\ UNCHANGED <<read_ret, returned, fresh>>
  /\ UNCHANGED <<streamState, capture_thread, cap_ret, stream_frame_count,
                 camera, camera_reads, releases, r_grabbed, session, stops>>

\* read(): self.frame.copy(), self.frame loaded once more; on None the
\* lookup of copy raises AttributeError
ReadCopy ==
  /\ main_pc = "read_copy"
  /\ IF latest_frame = NoFrame
       THEN /\ read_ret' = [grabbed |-> r_grabbed, frame |-> NoFrame,
                            private |-> TRUE, raised |-> TRUE]
            /\ video_op' = "read_raised"
            /\ UNCHANGED <<returned, fresh>>
       ELSE /\ read_ret' = [grabbed |-> r_grabbed,
                            frame |-> FrameCopy(latest_frame).frame,
                            private |-> FrameCopy(latest_frame).private,
                            raised |-> FALSE]
            /\ returned' = Append(returned, latest_frame)
            /\ fresh' = FALSE
            /\ video_op' = "read"
  /\ main_pc' = "idle"
  /\ UNCHANGED <<streamState, capture_thread, cap_ret, stream_frame_count,
                 camera, camera_reads, releases, r_grabbed, session, stops>>

\* stop(): self.stopped = True, then the join if there is a thread
StopCall ==
  /\ session # "exit"
  /\ main_pc = "idle"
  /\ stops < MaxStops
  /\ stopped' = TRUE
  /\ main_pc' = IF capture_thread # "none" THEN "join" ELSE "release"
  /\ video_op' = "stop_call"
  /\ UNCHANGED <<capture, latest_frame, grabbed, capture_thread, cap_ret,
                 stream_frame_count, camera, camera_reads, releases,
                 r_grabbed, read_ret, returned, fresh, session, stops>>

\* stop(): thread.join(timeout=1.0) returns because the thread has ended
StopJoinReturns ==
  /\ main_pc = "join"
  /\ capture_thread \notin Capturing
  /\ main_pc' = "release"
  /\ video_op' = "stop_call"
  /\ UNCHANGED <<streamState, capture_thread, cap_ret, stream_frame_count,
                 camera, camera_reads, releases, r_grabbed, read_ret,
                 returned, fresh, session, stops>>

\* stop(): thread.join(timeout=1.0) gives up on a thread still in its loop
StopJoinTimesOut ==
  /\ main_pc = "join"
  /\ capture_thread \in Capturing
  /\ main_pc' = "release"
  /\ video_op' = "stop_call"
  /\ UNCHANGED <<streamState, capture_thread, cap_ret, stream_frame_count,
                 camera, camera_reads, releases, r_grabbed, read_ret,
                 returned, fresh, session, stops>>

HandleHeldAlways == TRUE

\* stop(): if self.capture is not None
HandleHeld == capture # "none"

\* stop(): if self.capture is not None: self.capture.release()
StopRelease ==
  /\ main_pc = "release"
  /\ IF HandleHeld
       THEN /\ camera' = "released"
            /\ releases' = releases + 1
            /\ main_pc' = "clear"
            /\ video_op' = "stop_call"
            /\ UNCHANGED stops
       ELSE /\ main_pc' = "idle"
            /\ video_op' = "stop"
            /\ stops' = stops + 1
            /\ UNCHANGED <<camera, releases>>
  /\ UNCHANGED <<streamState, capture_thread, cap_ret, stream_frame_count,
                 camera_reads, r_grabbed, read_ret, returned, fresh,
                 session>>

\* stop(): self.capture = None, and stop() returns
StopClear ==
  /\ main_pc = "clear"
  /\ capture' = "none"
  /\ main_pc' = "idle"
  /\ video_op' = "stop"
  /\ stops' = stops + 1
  /\ UNCHANGED <<latest_frame, grabbed, stopped, capture_thread, cap_ret,
                 stream_frame_count, camera, camera_reads, releases,
                 r_grabbed, read_ret, returned, fresh, session>>

(***************************************************************************)
(* Specifications                                                          *)
(***************************************************************************)
\* a dispatcher of any configuration, beside trackers left alone
AlertInit ==
  \E se \in BOOLEAN, ve \in BOOLEAN, cd \in 0..MaxCooldown :
    /\ AlertConstruct(se, ve, cd)
    /\ EyeConstruct(1, 1)
    /\ YawnConstruct(1, 1, 1)
    /\ RatioConstruct(<<>>)
    /\ DetectorParked
    /\ driven = "alert"
    /\ VideoConstruct
    /\ skipped = 0

\* an eye tracker of any configuration, beside the others left alone
EyeInit ==
  \E hs \in 0..MaxHistory, dft \in 0..MaxDrowsyFrames :
    /\ EyeConstruct(hs, dft)
    /\ AlertConstruct(TRUE, TRUE, 0)
    /\ YawnConstruct(1, 1, 1)
    /\ RatioConstruct(<<>>)
    /\ DetectorParked
    /\ driven = "eye"
    /\ VideoConstruct
    /\ skipped = 0

\* a yawn detector of any configuration, beside the others left alone
YawnInit ==
  \E myf \in 0..MaxMinYawnFrames, hs \in 0..MaxMarHistory,
     cya \in 0..MaxYawnsAlert :
    /\ YawnConstruct(myf, hs, cya)
    /\ AlertConstruct(TRUE, TRUE, 0)
    /\ EyeConstruct(1, 1)
    /\ RatioConstruct(<<>>)
    /\ DetectorParked
    /\ driven = "yawn"
    /\ VideoConstruct
    /\ skipped = 0

\* one step of the dispatcher, its caller, a playback thread or the clock
AlertNext ==
  \/ Trigger /\ UNCHANGED notAlert
  \/ StopAlert /\ UNCHANGED notAlert
  \/ Reset /\ UNCHANGED notAlert
  \/ JoinReturns /\ UNCHANGED notAlert
  \/ JoinTimesOut /\ UNCHANGED notAlert
  \/ Tick /\ UNCHANGED notAlert
  \/ \E t \in Threads : PlayPoll(t) /\ UNCHANGED notAlert
  \/ \E t \in Threads : PlayRaise(t) /\ UNCHANGED notAlert
  \/ \E t \in Threads : PlayFinally(t) /\ UNCHANGED notAlert

\* one call on the eye tracker
EyeNext ==
  \/ \E l \in EarValues, r \in EarValues :
       ProcessEyes(l, r) /\ UNCHANGED notEye
  \/ EyeReset /\ UNCHANGED notEye

\* an eye tracker and a yawn detector of any configuration side by side
TrackerInit ==
  \E hs \in 0..MaxHistory, dft \in 0..MaxDrowsyFrames,
     myf \in 0..MaxMinYawnFrames, mhs \in 0..MaxMarHistory,
     cya \in 0..MaxYawnsAlert :
    /\ EyeConstruct(hs, dft)
    /\ YawnConstruct(myf, mhs, cya)
    /\ AlertConstruct(TRUE, TRUE, 0)
    /\ RatioConstruct(<<>>)
    /\ DetectorParked
    /\ driven = "trackers"
    /\ VideoConstruct
    /\ skipped = 0

\* one call on either tracker, over a few frames
TrackerNext ==
  \/ \E l \in EarValues, r \in EarValues :
       /\ frames < MaxTrackerFrames
       /\ ProcessEyes(l, r)
       /\ UNCHANGED <<notTracker, yawnVars>>
  \/ EyeReset /\ UNCHANGED <<notTracker, yawnVars>>
  \/ \E mar \in MarValues :
       /\ frame_number < MaxTrackerFrames
       /\ ProcessMouth(mar)
       /\ UNCHANGED <<notTracker, eyeVars>>
  \/ YawnReset /\ UNCHANGED <<notTracker, eyeVars>>

\* an array of landmarks, beside components left alone
RatioInit ==
  \E kind \in ArrayKinds, f \in [1..4 -> Grid] :
    /\ RatioConstruct(ArrayOf(kind, f))
    /\ AlertConstruct(TRUE, TRUE, 0)
    /\ EyeConstruct(1, 1)
    /\ YawnConstruct(1, 1, 1)
    /\ DetectorParked
    /\ driven = "ratio"
    /\ VideoConstruct
    /\ skipped = 0

\* the call that fits the array
RatioNext ==
  \/ EarOfLandmarks /\ UNCHANGED notRatio
  \/ MarOfLandmarks /\ UNCHANGED notRatio

\* a detector of any configuration
DetectorInit ==
  \E se \in BOOLEAN, cd \in {0, MaxDetectorCooldown},
     dft \in {0, 1, MaxDetectorDrowsyFrames},
     cya \in {0, MaxDetectorYawnsAlert} :
    /\ DetectorConstruct(se, TRUE, cd, dft, cya)
    /\ RatioConstruct(<<>>)
    /\ driven = "detector"
    /\ VideoConstruct
    /\ skipped = 0

\* one step of the detector's caller, a playback thread or the clock
DetectorNext ==
  \/ \E frame \in Frames : ProcessFrame(frame)
  \/ DetectorReset
  \/ JoinReturns /\ DetectorAfterJoin
  \/ JoinTimesOut /\ DetectorAfterJoin
  \/ now < Epoch + MaxDetectorTicks /\ Tick /\ UNCHANGED notAlert
  \/ \E t \in Threads : PlayPoll(t) /\ UNCHANGED notAlert
  \/ \E t \in Threads : PlayRaise(t) /\ UNCHANGED notAlert
  \/ \E t \in Threads : PlayFinally(t) /\ UNCHANGED notAlert

\* one call on the yawn detector
YawnNext ==
  \/ MouthFrame /\ UNCHANGED notYawn
  \/ YawnReset /\ UNCHANGED notYawn

\* the dispatcher with its caller, its playback threads and the clock
AlertSpec == AlertInit /\ [][AlertNext]_vars

\* the same, with the playback threads scheduled fairly: a thread that can
\* see the stop signal, or that has left its loop, eventually takes its step
FairAlertSpec ==
  /\ AlertInit
  /\ [][AlertNext]_vars
  /\ \A t \in Threads :
       WF_vars(PlayPoll(t) /\ UNCHANGED notAlert)
  /\ \A t \in Threads :
       WF_vars(PlayFinally(t) /\ UNCHANGED notAlert)

\* the eye tracker fed frame by frame
EyeSpec == EyeInit /\ [][EyeNext]_vars

\* the yawn detector fed frame by frame
YawnSpec == YawnInit /\ [][YawnNext]_vars

\* both trackers, called in any order
TrackerSpec == TrackerInit /\ [][TrackerNext]_vars

\* calculate_ear and calculate_mar applied to arrays of landmarks
RatioSpec == RatioInit /\ [][RatioNext]_vars

\* the detector fed frame by frame, with its playback threads and the clock
DetectorSpec == DetectorInit /\ [][DetectorNext]_vars

\* any one of the components driven through its own interface: a dispatcher,
\* the two trackers, or a detector that owns all three
ComponentsInit ==
  \/ \E se \in BOOLEAN, cd \in {0, MaxCooldown} :
       /\ AlertConstruct(se, TRUE, cd)
       /\ EyeConstruct(1, 1)
       /\ YawnConstruct(1, 1, 1)
       /\ RatioConstruct(<<>>)
       /\ DetectorParked
       /\ driven = "alert"
       /\ VideoConstruct
       /\ skipped = 0
  \/ \E dft \in {1, MaxDrowsyFrames}, myf \in {1, MaxMinYawnFrames} :
       /\ EyeConstruct(MaxHistory, dft)
       /\ YawnConstruct(myf, MaxMarHistory, 1)
       /\ AlertConstruct(TRUE, TRUE, 0)
       /\ RatioConstruct(<<>>)
       /\ DetectorParked
       /\ driven = "trackers"
       /\ VideoConstruct
       /\ skipped = 0
  \/ DetectorInit

ComponentsNext ==
  \/ driven = "alert" /\ AlertNext
  \/ driven = "trackers" /\ TrackerNext
  \/ driven = "detector" /\ DetectorNext

ComponentsSpec == ComponentsInit /\ [][ComponentsNext]_vars

\* a stream beside the other components left alone
VideoInit ==
  /\ VideoConstruct
  /\ skipped = 0
  /\ AlertConstruct(TRUE, TRUE, 0)
  /\ EyeConstruct(1, 1)
  /\ YawnConstruct(1, 1, 1)
  /\ RatioConstruct(<<>>)
  /\ DetectorParked
  /\ driven = "stream"

\* one step of the stream's consumer or of its capture thread
VideoNext ==
  \/ \E outcome \in StartOutcomes : Start(outcome) /\ UNCHANGED notVideo
  \/ ReadGrabbed /\ UNCHANGED notVideo
  \/ ReadTest /\ UNCHANGED notVideo
  \/ ReadCopy /\ UNCHANGED notVideo
  \/ StopCall /\ UNCHANGED notVideo
  \/ StopJoinReturns /\ UNCHANGED notVideo
  \/ StopJoinTimesOut /\ UNCHANGED notVideo
  \/ StopRelease /\ UNCHANGED notVideo
  \/ StopClear /\ UNCHANGED notVideo
  \/ UpdateTest /\ UNCHANGED notVideo
  \/ UpdateCheck /\ UNCHANGED notVideo
  \/ UpdateCall /\ UNCHANGED notVideo
  \/ \E ok \in BOOLEAN : UpdateRead(ok) /\ UNCHANGED notVideo
  \/ UpdateStoreGrabbed /\ UNCHANGED notVideo
  \/ UpdateStoreFrame /\ UNCHANGED notVideo
  \/ UpdateCount /\ UNCHANGED notVideo

\* the stream with its consumer and its capture thread
VideoSpec == VideoInit /\ [][VideoNext]_vars

\* iterations of main()'s processing loop
MaxSessionReads == 2

NoFrameReadFlagOnly(pair) == ~pair.grabbed

\* main(): if not grabbed or frame is None
NoFrameRead(pair) == ~pair.grabbed \/ pair.frame = NoFrame

\* main(): a read() has returned and the loop body has not yet dealt with it
Unhandled == skipped + det_calls < Len(returned)

\* main(): grabbed, frame = video_stream.read(), at the top of the loop
SessionRead ==
  /\ ~Unhandled
  /\ ~stopped
  /\ ~read_ret.raised
  /\ det_op # "raised"
  /\ pc = "idle"
  /\ Len(returned) < MaxSessionReads
  /\ ReadGrabbed
  /\ UNCHANGED notVideo

\* main(): logger.warning("Failed to grab frame"); time.sleep(0.1); continue
MainSkip ==
  /\ Unhandled
  /\ main_pc = "idle"
  /\ NoFrameRead(read_ret)
  /\ skipped' = skipped + 1
  /\ UNCHANGED <<alertVars, eyeVars, yawnVars, ratioVars, detVars, driven,
                 videoVars, mixer>>

\* what the camera's frames show in the processing loop: no face, or a face
\* with eyes closed or open, mouth shut and no pose solved
SessionFrames ==
  {frame \in Frames :
     frame.face => frame.mar < mar_threshold + 1 /\ frame.pose = UnsolvedPose}

\* main(): result = detector.process_frame(frame), with whatever the frame
\* shows
MainProcess ==
  /\ Unhandled
  /\ main_pc = "idle"
  /\ ~NoFrameRead(read_ret)
  /\ \E frame \in SessionFrames : ProcessFrame(frame)

\* main(): finally: video_stream.stop(), once the loop has been left
SessionStop ==
  /\ session = "loop"
  /\ ~stopped
  /\ ~Unhandled
  /\ pc = "idle"
  /\ StopCall
  /\ UNCHANGED notVideo

\* main() after the detector is built: the stream is not started yet
SessionInit ==
  \E se \in BOOLEAN :
    /\ DetectorConstruct(se, TRUE, 0, 1, 1)
    /\ RatioConstruct(<<>>)
    /\ driven = "session"
    /\ VideoConstruct
    /\ skipped = 0

\* one step of main(), of the capture thread or of a playback thread
SessionNext ==
  \/ \E outcome \in StartOutcomes : Start(outcome) /\ UNCHANGED notVideo
  \/ SessionRead
  \/ ReadTest /\ UNCHANGED notVideo
  \/ ReadCopy /\ UNCHANGED notVideo
  \/ MainSkip
  \/ MainProcess
  \/ JoinReturns /\ DetectorAfterJoin
  \/ JoinTimesOut /\ DetectorAfterJoin
  \/ \E t \in Threads : PlayPoll(t) /\ UNCHANGED notAlert
  \/ \E t \in Threads : PlayRaise(t) /\ UNCHANGED notAlert
  \/ \E t \in Threads : PlayFinally(t) /\ UNCHANGED notAlert
  \/ SessionStop
  \/ StopJoinReturns /\ UNCHANGED notVideo
  \/ StopJoinTimesOut /\ UNCHANGED notVideo
  \/ StopRelease /\ UNCHANGED notVideo
  \/ StopClear /\ UNCHANGED notVideo
  \/ UpdateTest /\ UNCHANGED notVideo
  \/ UpdateCheck /\ UNCHANGED notVideo
  \/ UpdateCall /\ UNCHANGED notVideo
  \/ \E ok \in BOOLEAN : UpdateRead(ok) /\ UNCHANGED notVideo
  \/ UpdateStoreGrabbed /\ UNCHANGED notVideo
  \/ UpdateStoreFrame /\ UNCHANGED notVideo
  \/ UpdateCount /\ UNCHANGED notVideo

\* main()'s processing loop over the stream and the detector
SessionSpec == SessionInit /\ [][SessionNext]_vars

\* a dispatcher that its caller uses and then cleans up
ShutdownInit ==
  \E se \in BOOLEAN, cd \in {0, MaxCooldown} :
    /\ AlertConstruct(se, TRUE, cd)
    /\ EyeConstruct(1, 1)
    /\ YawnConstruct(1, 1, 1)
    /\ RatioConstruct(<<>>)
    /\ DetectorParked
    /\ driven = "shutdown"
    /\ VideoConstruct
    /\ skipped = 0

\* one step of the dispatcher's caller, who calls nothing but cleanup() once
\* it has called it, of a playback thread or of the clock
ShutdownNext ==
  \/ mixer = "init" /\ Trigger /\ UNCHANGED notAlert
  \/ mixer = "init" /\ StopAlert /\ UNCHANGED notAlert
  \/ mixer = "init" /\ Reset /\ UNCHANGED notAlert
  \/ Cleanup /\ UNCHANGED notDispatcher
  \/ JoinReturns /\ CleanupAfterJoin /\ UNCHANGED notDispatcher
  \/ JoinTimesOut /\ CleanupAfterJoin /\ UNCHANGED notDispatcher
  \/ Tick /\ UNCHANGED notAlert
  \/ \E t \in Threads : PlayPoll(t) /\ UNCHANGED notAlert
  \/ \E t \in Threads : PlayRaise(t) /\ UNCHANGED notAlert
  \/ \E t \in Threads : PlayFinally(t) /\ UNCHANGED notAlert

\* the dispatcher up to and through its cleanup
ShutdownSpec == ShutdownInit /\ [][ShutdownNext]_vars

\* frames fed to a yawn detector whose mouth is free during the first
\* MaxFreeFrames frames
MaxFreeFrames == 5

\* frames enough for the fastest yawner to fill recent_yawns and one more
MaxRapidFrames ==
  MaxFreeFrames + (RecentCapacity + 1) * (MaxMinYawnFrames + 1)

\* process_mouth on the frames of the fastest yawner: after the free frames
\* the mouth stays open until the detector reports a yawn in progress and
\* shuts on the very next frame, so that every yawn is counted as early as
\* min_yawn_frames allows
RapidMouthFrame ==
  \E mar \in MarValues :
    /\ frame_number < MaxRapidFrames
    /\ frame_number < MaxFreeFrames \/ (CurrentlyOpen(mar) <=> ~is_yawning)
    /\ ProcessMouth(mar)

\* a yawn detector of any debounce length, beside the others left alone
RapidYawnInit ==
  \E myf \in 0..MaxMinYawnFrames :
    /\ YawnConstruct(myf, 1, 1)
    /\ AlertConstruct(TRUE, TRUE, 0)
    /\ EyeConstruct(1, 1)
    /\ RatioConstruct(<<>>)
    /\ DetectorParked
    /\ driven = "rapid"
    /\ VideoConstruct
    /\ skipped = 0

\* one call on the yawn detector
RapidYawnNext ==
  \/ RapidMouthFrame /\ UNCHANGED notYawn
  \/ YawnReset /\ UNCHANGED notYawn

\* the yawn detector fed long enough for recent_yawns to overflow
RapidYawnSpec == RapidYawnInit /\ [][RapidYawnNext]_vars

\* the same, with frames that keep arriving
FairYawnSpec ==
  /\ YawnInit
  /\ [][YawnNext]_vars
  /\ WF_vars(MouthFrame /\ UNCHANGED notYawn)

(***************************************************************************)
(* Properties of the alert dispatcher                                      *)
(***************************************************************************)
\* C1: a trigger_alert() made less than cooldown_seconds after one that
\* returned true, with no reset() in between, returns false and leaves
\* alert_count as it was.
CooldownBlocksSecondTrigger ==
  [][(/\ op' = "trigger"
      /\ alert_start # NoTime
      /\ now - alert_start < cooldown_seconds)
     => ret' = FALSE /\ alert_count' = alert_count]_vars

\* C1 witness: a second call, made after the alert was stopped, is turned
\* down by the cooldown alone.
SecondTriggerOnCooldown ==
  /\ op = "trigger"
  /\ ret = FALSE
  /\ ~is_alerting
  /\ alert_start # NoTime
  /\ now - alert_start < cooldown_seconds
  /\ alert_count = 1

\* C2: trigger_alert() while ALERTING returns false and changes nothing:
\* flag, timestamp, count, stop signal and playback threads stay as they are.
AlertingRejectsTrigger ==
  [][(op' = "trigger" /\ is_alerting)
     => ret' = FALSE /\ UNCHANGED alertState]_vars

\* C2 witness: a call past the cooldown is turned down because an alert is on.
TriggerWhileAlerting ==
  /\ op = "trigger"
  /\ ret = FALSE
  /\ is_alerting
  /\ now - last_alert_time >= cooldown_seconds

\* C3 as stated: trigger_alert() returns false and changes nothing whenever
\* less than cooldown_seconds have passed since the END of the previous alert.
CooldownFromAlertEnd ==
  [][(/\ op' = "trigger"
      /\ alert_end # NoTime
      /\ now - alert_end < cooldown_seconds)
     => ret' = FALSE /\ UNCHANGED alertState]_vars

\* C3 amended: trigger_alert() returns false and changes nothing whenever
\* less than cooldown_seconds have passed since the START of the previous
\* alert (its successful trigger_alert()), however long that alert lasted.
CooldownFromAlertStart ==
  [][(/\ op' = "trigger"
      /\ alert_start # NoTime
      /\ now - alert_start < cooldown_seconds)
     => ret' = FALSE /\ UNCHANGED alertState]_vars

\* C3 witness: an alert that lasted a while has ended, and a call within the
\* cooldown of its start is turned down.
TriggerSoonAfterStart ==
  /\ op = "trigger"
  /\ ret = FALSE
  /\ ~is_alerting
  /\ alert_start # NoTime
  /\ alert_end > alert_start
  /\ now - alert_start < cooldown_seconds

StopAlertLeavesIdle ==
  [][/\ (op' = "stop" /\ pc = "idle" /\ ~is_alerting)
        => UNCHANGED <<alertState, pc>>
     /\ (/\ pc = "idle"
         /\ is_alerting
         /\ \/ op' = "stop"
            \/ op' = "join" /\ caller' = "stop")
        => stop_event'
     /\ (pc = "join" /\ pc' = "idle") => now' - now <= JoinTimeout
     /\ op' = "stop" => ~is_alerting' /\ pc' = "idle"
    ]_vars

\* C5 witness: stop_alert() has returned after its join timed out: the
\* dispatcher is IDLE, the signal set, the thread still in its loop.
StoppedAfterJoinTimeout ==
  /\ op = "stop"
  /\ ~is_alerting
  /\ stop_event
  /\ alert_thread # None
  /\ thread[alert_thread] = "looping"

\* C6 as stated: when the playback thread of the current alert fails, the
\* dispatcher stays ALERTING and, with visual_enabled, the visual alert
\* stays on until stop_alert() is called.
PlaybackFailureKeepsVisual ==
  [][\A t \in Threads :
       (/\ t = alert_thread
        /\ thread[t] = "raised"
        /\ thread'[t] = "dead"
        /\ pc = "idle"
        /\ visual_enabled
        /\ is_alerting)
       => is_alerting' /\ ShouldShowVisualAlert']_vars

\* C7 as stated: a live playback thread implies is_alerting.
PlaybackOnlyWhileAlerting ==
  \A t \in Threads : thread[t] \in Live => is_alerting

\* C8 as stated: a playback thread whose alert was stopped (the stop signal
\* was set for it) eventually ends, whatever calls follow.
CancelledPlaybackTerminates ==
  \A t \in Threads : [](cancelled[t] => <>(thread[t] = "dead"))

(***************************************************************************)
(* Properties of the eye tracker                                           *)
(***************************************************************************)
\* C9: a run of k closed frames, 1 <= k < drowsy_frames_threshold, ended by
\* an open frame adds exactly one blink on that open frame and none on the
\* closed frames, and is_drowsy() is false all along.
BlinkCounting ==
  [][(eye_op' = "process" /\ frames' = frames + 1)
     => /\ run' > 0 => blink_count' = blink_count
        /\ (run' = 0 /\ 1 <= run /\ run < drowsy_frames_threshold)
             => blink_count' = blink_count + 1 /\ ~IsDrowsy'
        /\ (1 <= run' /\ run' < drowsy_frames_threshold) => ~IsDrowsy'
    ]_vars

\* C9 witness: a closed frame then an open one, and one blink counted.
BlinkCounted ==
  /\ eye_op = "process"
  /\ drowsy_frames_threshold = 2
  /\ ear_history = <<24, 25>>
  /\ frames = 2
  /\ run = 0
  /\ blink_count = 1

\* C10 as stated: after every process_eyes call, is_drowsy() is true exactly
\* when the current run of closed frames has reached
\* drowsy_frames_threshold frames; after an open frame it is false.
DrowsyWhileClosed ==
  eye_op = "process"
    => (IsDrowsy <=> (run >= 1 /\ run >= drowsy_frames_threshold))

\* C11: a closure of drowsy_frames_threshold frames or more is never counted
\* as a blink: blink_count stays as it is on every closed frame and on the
\* open frame that ends such a closure, and closed_frame_count is 0 after
\* every open frame.
LongClosureIsNoBlink ==
  [][eye_op' = "process"
     => /\ run' > 0 => blink_count' = blink_count
        /\ (run' = 0 /\ run > 0 /\ run >= drowsy_frames_threshold)
             => blink_count' = blink_count
        /\ run' = 0 => closed_frame_count' = 0]_vars

\* C11 witness: two closed frames with a threshold of two, then an open
\* frame, and no blink was counted.
LongClosureEnded ==
  /\ eye_op = "process"
  /\ drowsy_frames_threshold = 2
  /\ frames = 3
  /\ Len(ear_history) = 2
  /\ ear_history[1] < ear_threshold
  /\ ear_history[2] >= ear_threshold
  /\ closed_frame_count = 0
  /\ blink_count = 0

\* C12 as stated: whenever is_drowsy() is true after process_eyes, the score
\* is above 50 and at most 100, for every history capacity and every
\* drowsy_frames_threshold >= 1.
DrowsyScoreAboveHalf ==
  (eye_op = "process" /\ drowsy_frames_threshold >= 1 /\ IsDrowsy)
    => /\ ~Raised(GetDrowsinessScore)
       /\ GetDrowsinessScore.num > 50 * GetDrowsinessScore.den
       /\ GetDrowsinessScore.num <= 100 * GetDrowsinessScore.den

\* C12: the same for every history capacity of at least 1; a tracker whose
\* history holds nothing scores 0.
DrowsyScoreAboveHalfWithHistory ==
  (/\ eye_op = "process"
   /\ drowsy_frames_threshold >= 1
   /\ history_size >= 1
   /\ IsDrowsy)
    => /\ ~Raised(GetDrowsinessScore)
       /\ GetDrowsinessScore.num > 50 * GetDrowsinessScore.den
       /\ GetDrowsinessScore.num <= 100 * GetDrowsinessScore.den

\* C12 witness: a drowsy tracker whose history still holds an open frame, so
\* that the score is 75.
DrowsyWithMixedHistory ==
  /\ eye_op = "process"
  /\ drowsy_frames_threshold = 1
  /\ history_size = 2
  /\ IsDrowsy
  /\ closed_frame_count = 1
  /\ GetDrowsinessScore = Score(150, 2)

(***************************************************************************)
(* Properties of the yawn detector                                         *)
(***************************************************************************)
\* C13: a run of k >= 1 open-mouth frames followed by a closed-mouth frame
\* adds exactly 1 to total_yawns on that closed frame when
\* k >= min_yawn_frames and nothing when k < min_yawn_frames; total_yawns
\* never changes on an open-mouth frame.
YawnDebouncing ==
  [][yawn_op' = "process"
     => /\ open_run' > 0 => total_yawns' = total_yawns
        /\ (open_run' = 0 /\ open_run > 0 /\ open_run >= min_yawn_frames)
             => total_yawns' = total_yawns + 1
        /\ (open_run' = 0 /\ open_run > 0 /\ open_run < min_yawn_frames)
             => total_yawns' = total_yawns]_vars

\* C13 witness: the mouth closed after exactly min_yawn_frames = 2 open
\* frames and the yawn was counted.
YawnCounted ==
  /\ yawn_op = "process"
  /\ min_yawn_frames = 2
  /\ frame_number = 3
  /\ open_run = 0
  /\ total_yawns = 1
  /\ yawned_at = {3}

\* C14: after every process_mouth call is_yawning is true exactly when the
\* frame is an open-mouth one and the current run of open-mouth frames is at
\* least min_yawn_frames long.
YawningWhileOpenLongEnough ==
  yawn_op = "process"
    => (is_yawning <=> (open_run > 0 /\ open_run >= min_yawn_frames))

\* C14 witness: the second open frame of a run, with min_yawn_frames = 2,
\* turns is_yawning on.
YawningStarted ==
  /\ yawn_op = "process"
  /\ min_yawn_frames = 2
  /\ open_run = 2
  /\ is_yawning

\* C15: is_fatigue_indicated() is true exactly when at least
\* consecutive_yawns_alert yawns were counted at frame numbers f with
\* frame_number - f < 90; and with frames that keep arriving, a fatigue
\* indication of a detector that asks for at least one yawn ends.
FatigueWindow ==
  /\ [](IsFatigueIndicated
          <=> Cardinality({f \in yawned_at : frame_number - f < 90})
                >= consecutive_yawns_alert)
  /\ []((IsFatigueIndicated /\ consecutive_yawns_alert >= 1)
          => <>(~IsFatigueIndicated))

\* C15 witness: two yawns were enough for the indication, and 90 frames
\* after the later one both have left the window with no reset in between.
FatigueAgedOut ==
  /\ yawn_op = "process"
  /\ consecutive_yawns_alert = 2
  /\ total_yawns = 2
  /\ \A f \in yawned_at : frame_number - f = 90 \/ frame_number - f > 90
  /\ \E f \in yawned_at : frame_number - f = 90
  /\ ~IsFatigueIndicated

(***************************************************************************)
(* Properties of both trackers                                             *)
(***************************************************************************)
\* the tracking state EyeTracker.__init__ and YawnDetector.__init__ set up
FreshEyeState == <<<<>>, 0, 0, FALSE>>
FreshYawnState == <<<<>>, 0, 0, FALSE, <<>>, 0>>

\* C16: reset() of an EyeTracker or a YawnDetector, after any calls, leaves
\* the state of a freshly constructed instance with the same configuration;
\* a second reset() changes nothing.
ResetRestoresFreshState ==
  [][/\ eye_op' = "reset" => (eyeState' = FreshEyeState /\ UNCHANGED eyeCfg)
     /\ yawn_op' = "reset"
          => (yawnState' = FreshYawnState /\ UNCHANGED yawnCfg)
     /\ (eye_op = "reset" /\ eye_op' = "reset")
          => UNCHANGED <<eyeCfg, eyeState>>
     /\ (yawn_op = "reset" /\ yawn_op' = "reset")
          => UNCHANGED <<yawnCfg, yawnState>>]_vars

\* C16 witness: both trackers were reset, the eye tracker after two frames
\* held in its history, the yawn detector after a counted yawn.
BothTrackersReset ==
  /\ eye_op = "reset"
  /\ frames = 2
  /\ history_size >= 1
  /\ yawn_op = "reset"
  /\ yawns_cleared = 1

(***************************************************************************)
(* Properties of calculate_ear and calculate_mar                           *)
(***************************************************************************)
\* C17: calculate_ear and calculate_mar return exactly 0 for every array
\* whose two corner points coincide, whatever the heights are, in the
\* 20-point branch of calculate_mar as in its 12-point branch.
ZeroWidthGivesZero ==
  /\ (ratio_op = "ear" /\ At(landmarks, 0) = At(landmarks, 3))
       => ratio = 0
  /\ (ratio_op = "mar" /\ Len(landmarks) >= 20
        /\ At(landmarks, 12) = At(landmarks, 16))
       => ratio = 0
  /\ (ratio_op = "mar" /\ Len(landmarks) < 20
        /\ At(landmarks, 0) = At(landmarks, 6))
       => ratio = 0

\* C17 witness: a 12-point mouth whose corners coincide away from the origin
\* and whose two heights are not 0 measures 0.
ZeroWidthMouthMeasured ==
  /\ ratio_op = "mar"
  /\ Len(landmarks) = 12
  /\ At(landmarks, 0) = At(landmarks, 6)
  /\ At(landmarks, 0) # <<0, 0>>
  /\ At(landmarks, 2) # At(landmarks, 10)
  /\ At(landmarks, 4) # At(landmarks, 8)
  /\ ratio = 0

(***************************************************************************)
(* Properties of the orchestrator                                          *)
(***************************************************************************)
\* C18: process_frame on a frame without a face returns a result with
\* face_detected false and every metric at its default, and changes nothing
\* in the eye tracker, the yawn detector or the dispatcher (no call reaches
\* the dispatcher); only frame_count advances.
NoFaceFrameChangesNothing ==
  [][(/\ det_calls' = det_calls + 1
      /\ det_op' \in {"frame", "raised"}
      /\ ~frame_in'.face)
     => /\ det_op' = "frame"
        /\ ~result'.face_detected
        /\ result' = DetectionResult
        /\ UNCHANGED <<eyeCfg, eyeState, yawnCfg, yawnState>>
        /\ UNCHANGED <<alertCfg, alertState, pc, op, ret>>
        /\ frame_count' = frame_count + 1
        /\ UNCHANGED start_time]_vars

\* C18 witness: the second frame shows no face while an alert is on and the
\* eyes were closed on the first frame; the closure count is still there.
NoFaceDuringAlert ==
  /\ det_op = "frame"
  /\ ~frame_in.face
  /\ ~result.face_detected
  /\ frame_count = 2
  /\ is_alerting
  /\ closed_frame_count = 1
  /\ frame_number = 1

\* C19: for every frame with a face the fused drowsiness_score is
\* min(eye score + (30 if fatigue is indicated) + (20 if the head is down),
\* 100), taken on the trackers as the frame leaves them, and lies in
\* [0, 100].
FusedScoreIsCappedSum ==
  (det_op = "frame" /\ result.face_detected)
    => LET eye == GetDrowsinessScore
           fused == result.drowsiness_score
           extra == (IF IsFatigueIndicated THEN 30 ELSE 0)
                      + (IF EstimatePose(frame_in.pose).is_head_down
                           THEN 20 ELSE 0)
       IN /\ eye.den > 0
          /\ fused.den > 0
          /\ fused.num * eye.den
               = Min(eye.num + extra * eye.den, 100 * eye.den) * fused.den
          /\ fused.num >= 0
          /\ fused.num <= 100 * fused.den

\* C19 witness: eyes that were closed a frame ago, an indicated fatigue and
\* a lowered head add up to a score below the cap.
ThreeSignalsFused ==
  /\ det_op = "frame"
  /\ result.face_detected
  /\ result.head_down
  /\ IsFatigueIndicated
  /\ GetDrowsinessScore.num > 0
  /\ result.drowsiness_score.num < 100 * result.drowsiness_score.den

\* C20: for every frame with a face, result.is_drowsy is true exactly when
\* the eye tracker is drowsy or the head is down, and result.is_fatigued
\* exactly when the yawn detector indicates fatigue.
FrameFlagsFollowTrackers ==
  (det_op = "frame" /\ result.face_detected)
    => /\ result.is_drowsy
            <=> (IsDrowsy \/ EstimatePose(frame_in.pose).is_head_down)
       /\ result.is_fatigued <=> IsFatigueIndicated

\* C20 witness: a lowered head alone makes the frame drowsy, with the eye
\* tracker not drowsy and no fatigue indicated.
DrowsyByHeadAlone ==
  /\ det_op = "frame"
  /\ result.face_detected
  /\ result.is_drowsy
  /\ ~IsDrowsy
  /\ result.head_down
  /\ ~result.is_fatigued

(***************************************************************************)
(* Properties of the orchestrator's alert policy and reset                 *)
(***************************************************************************)
\* a process_frame call on a frame with a face that returns its result
FaceFrameStep ==
  /\ det_calls' = det_calls + 1
  /\ det_op' = "frame"
  /\ frame_in'.face

DetectorResetReturns ==
  /\ det_op' = "reset"
  /\ det_calls' = det_calls + 1 \/ det_op = "join"

\* C22: DrowsinessDetector.reset(), after any processed frames, leaves the
\* eye tracker and the yawn detector in their initial state, the dispatcher
\* IDLE with alert_count 0 and last_alert_time 0, and frame_count 0 with the
\* start time taken anew.
DetectorResetRestores ==
  [][DetectorResetReturns =>
       /\ eyeState' = FreshEyeState
       /\ yawnState' = FreshYawnState
       /\ ~is_alerting'
       /\ alert_count' = 0
       /\ last_alert_time' = NoTime
       /\ frame_count' = 0
       /\ start_time' = now']_vars

\* C22 witness: reset() has returned after a frame of closed eyes that had
\* started an alert with sound, and after its join had timed out: the start
\* time is later than the construction's.
DetectorResetAfterAlert ==
  /\ det_op = "reset"
  /\ frames = 1
  /\ result.face_detected
  /\ result.is_drowsy
  /\ thread[1] = "looping"
  /\ start_time > Epoch
  /\ frame_count = 0

(***************************************************************************)
(* Properties of the counters                                              *)
(***************************************************************************)
\* C23: blink_count, total_yawns and alert_count never decrease in a step
\* other than a reset(): every process_eyes, process_mouth, trigger_alert,
\* stop_alert and process_frame step, and every step of a playback thread or
\* of the clock, leaves each counter as it was or larger by exactly 1; a
\* reset() puts it back to 0.
CountersOnlyGrow ==
  [][/\ \/ blink_count' \in {blink_count, blink_count + 1}
        \/ eye_op' = "reset" /\ blink_count' = 0
     /\ \/ total_yawns' \in {total_yawns, total_yawns + 1}
        \/ yawn_op' = "reset" /\ total_yawns' = 0
     /\ \/ alert_count' \in {alert_count, alert_count + 1}
        \/ op' = "reset" /\ alert_count' = 0]_vars

\* C23 witness: the trackers have counted a blink and a yawn.
BlinkAndYawnCounted ==
  /\ driven = "trackers"
  /\ eye_op = "process"
  /\ yawn_op = "process"
  /\ blink_count = 1
  /\ total_yawns = 1

(***************************************************************************)
(* Properties of the EAR history and of the drowsiness score               *)
(***************************************************************************)
\* the last k values of a sequence, in order
LastValues(s, k) ==
  IF k >= Len(s) THEN s ELSE SubSeq(s, Len(s) - k + 1, Len(s))

\* C24: the EAR history never holds more than history_size values; a
\* process_eyes call appends the frame's average EAR and drops the oldest
\* value when the history was full, so that the history is the last
\* min(n, history_size) averages in order, n being the calls since
\* construction or reset.
EarHistoryKeepsLatest ==
  [][/\ Len(ear_history') <= history_size
     /\ Len(ear_history') = Min(calls', history_size)
     /\ (eye_op' = "process" /\ frames' = frames + 1)
          => ear_history'
               = LastValues(Append(ear_history, ear_in'), history_size)
     /\ (eye_op' = "reset" /\ frames' = frames) => ear_history' = <<>>]_vars

\* C24 witness: a full history of two values after three calls: the first
\* average, an open frame, is gone and the two closed frames that followed
\* are kept in order.
OldestEarDropped ==
  /\ history_size = 2
  /\ calls = 3
  /\ run = 2
  /\ ear_history = <<22, 23>>
  /\ ear_in = 23

\* C25 as stated: in every reachable tracker state, for every configured
\* drowsy_frames_threshold, get_drowsiness_score() returns without raising a
\* value in [0, 100]: 0 with an empty history, and otherwise 50 times the
\* fraction of history entries below ear_threshold plus 50 times
\* min(closed_frame_count / drowsy_frames_threshold, 1).
ScoreDefinedInEveryState ==
  LET score == GetDrowsinessScore
      len == Len(ear_history)
  IN /\ ~Raised(score)
     /\ 0 <= score.num
     /\ score.num <= 100 * score.den
     /\ ear_history = <<>> => score.num = 0
     /\ ear_history # <<>>
          => score.num * len * drowsy_frames_threshold
               = score.den
                   * (50 * ThresholdCrossings * drowsy_frames_threshold
                      + 50 * Min(closed_frame_count, drowsy_frames_threshold)
                           * len)

(***************************************************************************)
(* Properties of the head pose in the orchestrator                         *)
(***************************************************************************)
\* C26: when the pose solver reports failure, estimate_pose returns pitch,
\* yaw and roll 0 with is_head_down and is_head_tilted false, whatever
\* rotation the solver left behind; in that frame the head pose adds nothing
\* to the score and the frame is drowsy only if the eye tracker says so.
FailedPoseIsNeutral ==
  (det_op = "frame" /\ frame_in.face /\ ~frame_in.pose.solved)
    => /\ EstimatePose(frame_in.pose)
            = [pitch |-> 0, yaw |-> 0, roll |-> 0,
               is_head_down |-> FALSE, is_head_tilted |-> FALSE]
       /\ result.face_detected
       /\ result.pitch = 0
       /\ result.yaw = 0
       /\ result.roll = 0
       /\ ~result.head_down
       /\ ~result.head_tilted
       /\ result.drowsiness_score
            = FusedScore(GetDrowsinessScore,
                         IF result.is_fatigued THEN 30 ELSE 0, 0)
       /\ result.is_drowsy <=> IsDrowsy

\* C26 witness: a frame of open eyes whose pose could not be solved, the
\* solver having left a rotation beyond both thresholds: the frame is not
\* drowsy and its score is 0.
UnsolvedPoseFrame ==
  /\ det_op = "frame"
  /\ frame_in.face
  /\ ~frame_in.pose.solved
  /\ frame_in.pose.pitch < -pitch_threshold
  /\ Abs(frame_in.pose.roll) > roll_threshold
  /\ ~result.eyes_closed
  /\ ~result.is_drowsy
  /\ result.drowsiness_score.num = 0

(***************************************************************************)
(* Properties of the video stream                                          *)
(***************************************************************************)
\* a step in which read() returns a pair
ReadReturns == returned' # returned

\* C27: read() never waits on the capture thread and the capture thread
\* never waits on a reader: each can take its next step wherever the other
\* stands. A read() that returns gives the content the slot holds when it is
\* loaded, as a copy of the caller's own; so a read() that follows another
\* with no write to the slot in between returns the same frame, and frames
\* overwritten before a read() are never returned.
ReadReturnsLatestWithoutWaiting ==
  /\ [](/\ main_pc = "read_test" => ENABLED ReadTest
        /\ main_pc = "read_copy" => ENABLED ReadCopy
        /\ capture_thread = "test" => ENABLED UpdateTest
        /\ capture_thread = "check" => ENABLED UpdateCheck
        /\ capture_thread = "call" => ENABLED UpdateCall
        /\ capture_thread = "reading" => ENABLED UpdateRead(FALSE)
        /\ capture_thread = "store_grabbed" => ENABLED UpdateStoreGrabbed
        /\ capture_thread = "store_frame" => ENABLED UpdateStoreFrame
        /\ capture_thread = "count" => ENABLED UpdateCount)
  /\ [][ReadReturns
          => /\ read_ret'.frame = latest_frame
             /\ read_ret'.private
             /\ ~read_ret'.raised
             /\ (returned # <<>> /\ ~fresh)
                  => read_ret'.frame = returned[Len(returned)]]_vars

\* C27 witness: two reads with no write in between returned the first frame
\* twice; the third returned frame 3, frame 2 having been overwritten, while
\* the capture thread was in its loop.
FrameRepeatedThenSkipped ==
  /\ returned = <<1, 1, 3>>
  /\ capture_thread \in Capturing
  /\ video_op = "read"

\* a step in which stop() returns
StopReturns ==
  /\ main_pc \in {"release", "clear"}
  /\ main_pc' = "idle"

\* C28: stop() sets the stop flag, waits a bounded time for the capture
\* thread (its join returns or times out), then releases the camera handle
\* and clears it; over any number of stop() calls, before or after start(),
\* the handle is released exactly once if start() opened one and never
\* otherwise, and the stream is left stopped with no handle.
StopReleasesOnce ==
  /\ [](/\ releases <= 1
        /\ main_pc = "join"
             => (ENABLED StopJoinReturns \/ ENABLED StopJoinTimesOut)
        /\ main_pc \in {"join", "release", "clear"} => stopped)
  /\ [][StopReturns
          => /\ stopped'
             /\ capture' = "none"
             /\ camera' # "open"
             /\ releases' = IF session = "loop" THEN 1 ELSE 0]_vars

\* C28 witness: stop() has returned twice after a start(); the first join
\* timed out and the capture thread is still in its loop; the handle was
\* released once.
StoppedTwice ==
  /\ session = "loop"
  /\ stops = 2
  /\ releases = 1
  /\ main_pc = "idle"
  /\ capture_thread \in Capturing

\* C30: start() surfaces a startup failure: if the camera cannot be opened
\* or the first read after warm-up gives no frame, start() raises, no capture
\* thread is started and the stream stays stopped; main() then ends without
\* entering its processing loop: no read() is ever made. Otherwise start()
\* returns with the thread started and the stream running.
StartFailureSurfaces ==
  /\ [][(session = "startup" /\ session' # "startup")
          => IF camera' = "open" /\ grabbed'
               THEN /\ video_op' = "start"
                    /\ session' = "loop"
                    /\ capture_thread' = "test"
                    /\ ~stopped'
               ELSE /\ video_op' = "start_raised"
                    /\ session' = "exit"
                    /\ capture_thread' = "none"
                    /\ stopped']_vars
  /\ [](session = "exit"
          => /\ video_op = "start_raised"
             /\ capture_thread = "none"
             /\ stopped
             /\ main_pc = "idle"
             /\ returned = <<>>)

\* C30 witness: the camera opened but its first read gave no frame: start()
\* has raised and main() has returned.
FirstReadFailedAtStartup ==
  /\ session = "exit"
  /\ camera = "open"
  /\ ~grabbed
  /\ latest_frame = NoFrame
  /\ capture = "handle"

(***************************************************************************)
(* Properties of the dispatcher's cleanup                                  *)
(***************************************************************************)
\* C29 as stated: cleanup() joins any playback thread that is still running
\* before it releases the audio backend, leaves the dispatcher IDLE, and a
\* further cleanup() changes nothing.
CleanupJoinsBeforeRelease ==
  [][/\ (mixer = "init" /\ mixer' = "quit")
          => /\ \A t \in Threads :
                  thread[t] \in Live => (pc = "join" /\ alert_thread = t)
             /\ ~is_alerting'
     /\ (mixer = "quit" /\ op' = "cleanup")
          => UNCHANGED <<alertState, mixer>>]_vars

(***************************************************************************)
(* C31: after a successful start the capture thread leaves its loop only   *)
(* once stop() has been called, a failed camera read included: the thread  *)
(* goes on from a read that grabbed nothing to its next iteration.  In     *)
(* main() a read() that yields no frame is dropped: the step that drops it *)
(* changes nothing of the trackers, the dispatcher or frame_count, and the *)
(* detector is only ever called on a pair with grabbed true and a frame.   *)
(***************************************************************************)
FailedReadHandled ==
  /\ [](session = "loop" /\ ~stopped => capture_thread \in Capturing)
  /\ [][
       /\ (/\ capture_thread = "store_grabbed"
           /\ ~cap_ret[1]
           /\ capture_thread' # capture_thread)
            => capture_thread' \in Capturing
       /\ (skipped' # skipped)
            => UNCHANGED <<alertVars, eyeVars, yawnVars, detVars>>
       /\ (det_calls' # det_calls)
            => (read_ret.grabbed /\ read_ret.frame # NoFrame)
       /\ (Unhandled /\ NoFrameRead(read_ret) /\ main_pc = "idle")
            => (det_calls' = det_calls)
     ]_vars

\* main() has processed one frame and then dropped a read() that carried
\* the flag of a good iteration with no frame, while the capture thread,
\* after a failed camera read, is still looping
TornReadSkipped ==
  /\ det_calls = 1
  /\ skipped = 1
  /\ Len(returned) = 2
  /\ read_ret.grabbed
  /\ read_ret.frame = NoFrame
  /\ capture_thread \in Capturing
  /\ frame_count = 1

\* a read() call ends, by returning a pair or by raising
ReadEnds ==
  /\ main_pc \in {"read_test", "read_copy"}
  /\ main_pc' = "idle"

(***************************************************************************)
(* C32: whatever the capture thread does between the steps of a read(),    *)
(* the read() returns without raising and its pair is one that a single    *)
(* capture iteration (or start()) wrote: the flag is true exactly when     *)
(* there is a frame.                                                       *)
(***************************************************************************)
ReadPairWrittenTogether ==
  [][ReadEnds => /\ ~read_ret'.raised
                 /\ read_ret'.grabbed <=> read_ret'.frame # NoFrame]_vars

\* the capture thread begins a capture.read() on the handle it has loaded
CameraReadBegins ==
  /\ capture_thread = "call"
  /\ capture_thread' = "reading"

(***************************************************************************)
(* C33: once stop() has released the camera the capture thread begins no   *)
(* read on it, and it never fails on the handle that stop() has cleared,   *)
(* whether the join of stop() returned or timed out.                       *)
(***************************************************************************)
CaptureQuietAfterRelease ==
  /\ [][CameraReadBegins => camera # "released"]_vars
  /\ [](capture_thread # "crashed")

(***************************************************************************)
(* C34: at most one playback thread is alive in any state, whatever the    *)
(* calls, the outcomes of the joins and the cooldown.                      *)
(***************************************************************************)
OnePlaybackThreadAlive == Cardinality(LiveThreads) <= 1

\* is_alerting goes from true to false
AlertingEnds == is_alerting /\ ~is_alerting'

\* the playback thread started by the latest successful trigger_alert() ends
CurrentPlaybackEnds ==
  /\ alert_thread # None
  /\ thread[alert_thread] \in Live
  /\ thread'[alert_thread] = "dead"

(***************************************************************************)
(* C35: is_alerting goes back to false only in a step of stop_alert(),     *)
(* reset() or cleanup(), or in the step that ends the playback thread of   *)
(* the current alert; the exit of an earlier alert's thread leaves it.     *)
(***************************************************************************)
AlertingUntilStoppedOrPlayed ==
  [][AlertingEnds =>
       \/ op' \in {"stop", "reset", "cleanup"}
       \/ CurrentPlaybackEnds]_vars

\* what reset() leaves: no alert, no alert counted, no cooldown running
AfterResetState ==
  /\ ~is_alerting
  /\ alert_count = 0
  /\ ~OnCooldown

(***************************************************************************)
(* C36: reset() returns with the dispatcher IDLE, alert_count 0 and no     *)
(* cooldown running; nothing but a trigger_alert() changes that, and the   *)
(* trigger_alert() that comes next returns true, however short the time    *)
(* since the alert before the reset().                                     *)
(***************************************************************************)
ResetClearsCooldown ==
  [][
    /\ (op' = "reset") => AfterResetState'
    /\ (AfterResetState /\ op' # "trigger") => AfterResetState'
    /\ (AfterResetState /\ op' = "trigger") => ret'
  ]_vars

\* with the longest cooldown: an alert that played and ended, a reset(), and
\* a second trigger_alert() that succeeded in the same second as the first
TriggeredRightAfterReset ==
  /\ op = "trigger"
  /\ ret
  /\ sound_enabled
  /\ cooldown_seconds = MaxCooldown
  /\ now = Epoch
  /\ alert_thread = 2
  /\ alert_count = 1

(***************************************************************************)
(* C37: after every process_eyes or reset call, is_blinking is true        *)
(* exactly when closed_frame_count > 0, and closed_frame_count is the      *)
(* length of the run of closed frames that ends at the latest frame        *)
(* processed since construction or the last reset.                         *)
(***************************************************************************)
BlinkingIffClosedRun ==
  /\ is_blinking <=> closed_frame_count > 0
  /\ closed_frame_count = run

\* two frames, a reset(), then a closed frame and a second one
ClosedRunAfterReset ==
  /\ eye_op = "process"
  /\ frames = 4
  /\ calls = 2
  /\ is_blinking
  /\ closed_frame_count = 2

\* the frame numbers held in recent_yawns
RecentFrames == {recent_yawns[i] : i \in 1..Len(recent_yawns)}

(***************************************************************************)
(* C38: after any process_mouth and reset calls recent_yawns holds         *)
(* strictly increasing frame numbers between 1 and frame_number, as many   *)
(* as min(total_yawns, 100), and every yawn counted since the last reset   *)
(* that is still inside the trailing window of is_fatigue_indicated() is   *)
(* among them: the capacity has evicted none of those.                     *)
(***************************************************************************)
RecentYawnsWindowKept ==
  /\ \A i \in 1..Len(recent_yawns) :
       /\ recent_yawns[i] \in 1..frame_number
       /\ i > 1 => recent_yawns[i - 1] < recent_yawns[i]
  /\ Len(recent_yawns) = Min(total_yawns, RecentCapacity)
  /\ \A f \in yawned_at : InWindow(f) => f \in RecentFrames

\* one yawn more than the capacity has been counted: the oldest entry has
\* been evicted while later ones are still inside the window
OldestYawnEvicted ==
  /\ total_yawns = RecentCapacity + 1
  /\ Len(recent_yawns) = RecentCapacity
  /\ yawned_at \ RecentFrames # {}
  /\ \E f \in RecentFrames : InWindow(f)

====
